---- MODULE Spec2Model ----
(***************************************************************************)
(* Order-book snapshot log: the rotating log writer (FileManager), the     *)
(* length-prefixed frame format, and the nearest-at-or-before scan of the  *)
(* two reader programs.                                                    *)
(***************************************************************************)
EXTENDS Integers, Sequences, FiniteSets, TLC

VARIABLES
    \* ---- operating system and clock
    now,            \* wall clock, UTC milliseconds
    fs,             \* path -> <<>> (absent) or <<bytes>> (the file's content)
    handles,        \* os.File objects, in order of creation: [path, closed]
    writers,        \* bufio.Writer objects, writers[h] wraps handles[h]: [buf, err]
    ioFails,        \* number of I/O failures injected so far
    faulty,         \* os.Files whose next write the device refuses
    \* ---- FileManager
    mu,             \* fm.mu: 0 when free, else the caller holding it
    fileWriters,    \* fm.fileWriters: lower-cased symbol -> writer (0: no entry)
    openFiles,      \* fm.openFiles:   lower-cased symbol -> handle (0: no entry)
    currentDates,   \* fm.currentDates: lower-cased symbol -> date (NoDate: no entry)
    \* ---- callers of writeSnapshot (runCollector loops)
    pc,             \* caller -> position
    msg,            \* caller -> the call's arguments and locals
    nMsgs,          \* messages received from the feed so far
    last,           \* caller -> how its last writeSnapshot call returned, until its next one
    appended,       \* history: path -> snapshots whose frame reached the file
    \* ---- reader program (one query)
    rVariant,       \* which reader program runs
    rTarget,        \* targetTime
    rItems,         \* history: how the file under scan was built
    rPc,            \* position of the reader's main
    rPos,           \* read offset of the opened file
    rClosest,       \* closestSnapshot: <<>> (nil) or <<snapshot>>
    rTrace,         \* history: outcome of every readNextSnapshot call of the scan
    rFault,         \* whether reads of the opened file fail with an I/O error
    rBook,          \* book: the OrderBook main folds closestSnapshot into
    rDepth,         \* depth argument of printBook
    rRows           \* the rows printBook printed, per side

vars == <<now, fs, handles, writers, ioFails, mu, fileWriters, openFiles,
          currentDates, pc, msg, nMsgs, last, appended,
          rVariant, rTarget, rItems, rPc, rPos, rClosest, rTrace,
          faulty, rFault, rBook, rDepth, rRows>>

osVars     == <<now, fs, handles, writers, ioFails, faulty>>
fmVars     == <<mu, fileWriters, openFiles, currentDates>>
callerVars == <<pc, msg, nMsgs, last, appended>>
bookVars   == <<rBook, rDepth, rRows>>
readerVars == <<rVariant, rTarget, rItems, rPc, rPos, rClosest, rTrace, rFault, bookVars>>

----------------------------------------------------------------------------
(* Sequences of bytes *)

IsPrefix(a, b) ==
    /\ Len(a) <= Len(b)
    /\ SubSeq(b, 1, Len(a)) = a

\* The bytes of b from offset pos (0-based), n of them.
Slice(b, pos, n) ==
    SubSeq(b, pos + 1, pos + n)

----------------------------------------------------------------------------
(* Frame length prefix: binary.LittleEndian, 4 bytes *)

PutUint32(n) ==
    << n % 256, (n \div 256) % 256, (n \div 65536) % 256, (n \div 16777216) % 256 >>

\* Mutant of Uint32: the prefix read most significant byte first
Uint32_BigEndian(b) ==
    IF b[1] >= 128 THEN 2147483647
    ELSE b[4] + 256 * b[3] + 65536 * b[2] + 16777216 * b[1]

\* Lengths of 2^31 and more are held as 2^31 - 1, the largest integer TLC
\* computes with: such a length exceeds the size of every file considered.
Uint32(b) ==
    IF b[4] >= 128 THEN 2147483647
    ELSE b[1] + 256 * b[2] + 65536 * b[3] + 16777216 * b[4]

----------------------------------------------------------------------------
(* Snapshot payload: the protobuf wire format of                           *)
(*   Snapshot{1: eventTime int64, 2: lastUpdateId int64,                   *)
(*            3: repeated Level bids, 4: repeated Level asks}              *)
(*   Level{1: price double, 2: quantity double}                            *)
(* A double is held as the integer of its bit pattern.                     *)

RECURSIVE Varint(_)
Varint(n) ==
    IF n < 128 THEN << n >> ELSE << (n % 128) + 128 >> \o Varint(n \div 128)

Fixed64(v) ==
    PutUint32(v) \o << 0, 0, 0, 0 >>

MarshalLevel(l) ==
    (IF l.price # 0 THEN << 9 >> \o Fixed64(l.price) ELSE <<>>)
    \o (IF l.quantity # 0 THEN << 17 >> \o Fixed64(l.quantity) ELSE <<>>)

RECURSIVE MarshalLevels(_, _)
MarshalLevels(tag, ls) ==
    IF ls = <<>> THEN <<>>
    ELSE LET body == MarshalLevel(Head(ls))
         IN  << tag >> \o Varint(Len(body)) \o body \o MarshalLevels(tag, Tail(ls))

Marshal(s) ==
    (IF s.eventTime # 0 THEN << 8 >> \o Varint(s.eventTime) ELSE <<>>)
    \o (IF s.lastUpdateId # 0 THEN << 16 >> \o Varint(s.lastUpdateId) ELSE <<>>)
    \o MarshalLevels(26, s.bids)
    \o MarshalLevels(34, s.asks)

\* Decoding.  Every reader of b takes an offset i (1-based) and a limit e (the
\* last index it may read) and answers [ok, val, next].
Bad == [ok |-> FALSE, val |-> 0, next |-> 0]

RECURSIVE ReadVarint(_, _, _, _, _)
ReadVarint(b, i, e, acc, mul) ==
    IF i > e THEN Bad
    ELSE IF b[i] >= 128 THEN ReadVarint(b, i + 1, e, acc + (b[i] - 128) * mul, mul * 128)
    ELSE [ok |-> TRUE, val |-> acc + b[i] * mul, next |-> i + 1]

ReadFixed64(b, i, e) ==
    IF i + 7 > e THEN Bad
    ELSE [ok |-> TRUE, val |-> Uint32(SubSeq(b, i, i + 3)), next |-> i + 8]

\* Skip a field the schema does not know (or knows with another wire type).
SkipField(b, i, e, wt) ==
    CASE wt = 0 -> ReadVarint(b, i, e, 0, 1)
      [] wt = 1 -> IF i + 7 > e THEN Bad ELSE [ok |-> TRUE, val |-> 0, next |-> i + 8]
      [] wt = 5 -> IF i + 3 > e THEN Bad ELSE [ok |-> TRUE, val |-> 0, next |-> i + 4]
      [] wt = 2 -> LET n == ReadVarint(b, i, e, 0, 1)
                   IN  IF ~n.ok \/ n.next + n.val - 1 > e THEN Bad
                       ELSE [ok |-> TRUE, val |-> 0, next |-> n.next + n.val]
      [] OTHER  -> Bad

ZeroLevel == [price |-> 0, quantity |-> 0]

RECURSIVE UnmarshalLevel(_, _, _, _)
UnmarshalLevel(b, i, e, l) ==
    IF i > e THEN [ok |-> TRUE, val |-> l, next |-> i]
    ELSE LET tag == ReadVarint(b, i, e, 0, 1)
             fld == tag.val \div 8
             wt  == tag.val % 8
         IN  IF ~tag.ok \/ fld = 0 THEN Bad
             ELSE IF fld \in {1, 2} /\ wt = 1
             THEN LET v == ReadFixed64(b, tag.next, e)
                  IN  IF ~v.ok THEN Bad
                      ELSE UnmarshalLevel(b, v.next, e,
                               IF fld = 1 THEN [l EXCEPT !.price = v.val]
                                          ELSE [l EXCEPT !.quantity = v.val])
             ELSE LET s == SkipField(b, tag.next, e, wt)
                  IN  IF ~s.ok THEN Bad ELSE UnmarshalLevel(b, s.next, e, l)

ZeroSnapshot == [eventTime |-> 0, lastUpdateId |-> 0, bids |-> <<>>, asks |-> <<>>]

RECURSIVE UnmarshalFrom(_, _, _, _)
UnmarshalFrom(b, i, e, s) ==
    IF i > e THEN [ok |-> TRUE, val |-> s, next |-> i]
    ELSE LET tag == ReadVarint(b, i, e, 0, 1)
             fld == tag.val \div 8
             wt  == tag.val % 8
         IN  IF ~tag.ok \/ fld = 0 THEN Bad
             ELSE IF fld \in {1, 2} /\ wt = 0
             THEN LET v == ReadVarint(b, tag.next, e, 0, 1)
                  IN  IF ~v.ok THEN Bad
                      ELSE UnmarshalFrom(b, v.next, e,
                               IF fld = 1 THEN [s EXCEPT !.eventTime = v.val]
                                          ELSE [s EXCEPT !.lastUpdateId = v.val])
             ELSE IF fld \in {3, 4} /\ wt = 2
             THEN LET n == ReadVarint(b, tag.next, e, 0, 1)
                  IN  IF ~n.ok \/ n.next + n.val - 1 > e THEN Bad
                      ELSE LET l == UnmarshalLevel(b, n.next, n.next + n.val - 1, ZeroLevel)
                           IN  IF ~l.ok THEN Bad
                               ELSE UnmarshalFrom(b, n.next + n.val, e,
                                        IF fld = 3
                                        THEN [s EXCEPT !.bids = Append(@, l.val)]
                                        ELSE [s EXCEPT !.asks = Append(@, l.val)])
             ELSE LET k == SkipField(b, tag.next, e, wt)
                  IN  IF ~k.ok THEN Bad ELSE UnmarshalFrom(b, k.next, e, s)

\* proto.Unmarshal(msgBuf, &snapshot): [ok, val]
Unmarshal(b) ==
    LET r == UnmarshalFrom(b, 1, Len(b), ZeroSnapshot)
    IN  [ok |-> r.ok, val |-> IF r.ok THEN r.val ELSE ZeroSnapshot]

\* One frame: length prefix, then the payload.
Frame(s) ==
    LET bytes == Marshal(s) IN PutUint32(Len(bytes)) \o bytes

----------------------------------------------------------------------------
(* readNextSnapshot on the bytes of a file, from offset pos (0-based).      *)
(* err: "nil", "EOF" (io.EOF), "UnexpectedEOF" (io.ErrUnexpectedEOF), "EIO" *)
(* (the error of a failed file.Read) or "Unmarshal"; snap is <<>> for a nil *)
(* *Snapshot; pos is the offset after.                                      *)

ReadResult(err, snap, pos) ==
    [err |-> err, snap |-> snap, pos |-> pos]

\* io.ReadFull(f, buf) with Len(buf) = n: [err, n read]
ReadFull(b, pos, n) ==
    LET avail == Len(b) - pos
    IN  IF n = 0 THEN [err |-> "nil", n |-> 0]
        ELSE IF rFault THEN [err |-> "EIO", n |-> 0]
        ELSE IF avail = 0 THEN [err |-> "EOF", n |-> 0]
        ELSE IF avail < n THEN [err |-> "UnexpectedEOF", n |-> avail]
        ELSE [err |-> "nil", n |-> n]

\* Mutant of readNextSnapshot: the error of the payload read is dropped and
\* the bytes that were read are parsed
readNextSnapshot_IgnoresShortRead(b, pos) ==
    LET r1 == ReadFull(b, pos, 4)
    IN  IF r1.err # "nil" THEN ReadResult(r1.err, <<>>, pos + r1.n)
        ELSE LET msgLen == Uint32(Slice(b, pos, 4))
                 r2     == ReadFull(b, pos + 4, msgLen)
                 u      == Unmarshal(Slice(b, pos + 4, r2.n))
             IN  IF ~u.ok THEN ReadResult("Unmarshal", <<>>, pos + 4 + r2.n)
                 ELSE ReadResult("nil", << u.val >>, pos + 4 + r2.n)

readNextSnapshot(b, pos) ==
    LET r1 == ReadFull(b, pos, 4)
    IN  IF r1.err # "nil" THEN ReadResult(r1.err, <<>>, pos + r1.n)
        ELSE LET msgLen == Uint32(Slice(b, pos, 4))
                 r2     == ReadFull(b, pos + 4, msgLen)
             IN  IF r2.err # "nil" THEN ReadResult(r2.err, <<>>, pos + 4 + r2.n)
                 ELSE LET u == Unmarshal(Slice(b, pos + 4, msgLen))
                      IN  IF ~u.ok THEN ReadResult("Unmarshal", <<>>, pos + 4 + msgLen)
                          ELSE ReadResult("nil", << u.val >>, pos + 4 + msgLen)

----------------------------------------------------------------------------
(* Files, dates and symbols *)

MsPerDay == 86400000

\* time.UnixMilli(t).UTC().Format("2006-01-02"): the calendar day, held as the
\* number of days since 1970-01-01.
DateOf(t) == t \div MsPerDay

NoDate == -1

\* strings.ToLower on the symbols considered
ToLower(sym) ==
    CASE sym = "ETHUSDT" -> "ethusdt"
      [] sym = "ETHBTC"  -> "ethbtc"
      [] OTHER           -> sym

LowerSymbols == {"ethusdt", "ethbtc"}

MaxDate == 1

Dates == 0..MaxDate

\* data/<symbol>/<symbol>_<date>.bin
FileName(symLower, date) == << symLower, date >>

Paths == LowerSymbols \X Dates

NoFiles == [p \in Paths |-> <<>>]

Exists(files, p) == files[p] # <<>>

Content(files, p) == files[p][1]

----------------------------------------------------------------------------
(* The reader programs: main's scan for the nearest snapshot at or before   *)
(* targetTime.  "reader.go" prints snapshot.EventTime before it looks at    *)
(* err; "part_000" does not.                                                *)

ReaderVariants == {"reader.go", "part_000"}

ReaderSymbol == "ETHUSDT"

ReaderPath == FileName(ToLower(ReaderSymbol), DateOf(rTarget))

\* os.Open(fileName); log.Fatalf when it fails
ROpen ==
    /\ rPc = "open"
    /\ rPc' = IF Exists(fs, ReaderPath) THEN "scan" ELSE "fatal_open"
    /\ UNCHANGED <<rVariant, rTarget, rItems, rPos, rClosest, rTrace, rFault, bookVars>>
    /\ UNCHANGED <<osVars, fmVars, callerVars>>

\* One iteration of main's for loop.
PrintsEventTimeFirst(variant) == variant = "reader.go"

\* Mutant of ScanIteration: any read error ends the loop
ScanIteration_StopsOnError(variant, r, closest, target) ==
    IF PrintsEventTimeFirst(variant) /\ r.snap = <<>>
    THEN [pc |-> "panic", closest |-> closest]
    ELSE IF r.err # "nil" THEN [pc |-> "after", closest |-> closest]
    ELSE IF r.snap[1].eventTime > target THEN [pc |-> "after", closest |-> closest]
    ELSE [pc |-> "scan", closest |-> r.snap]

\* Mutant of ScanIteration: a frame later than the target is passed over and
\* the scan goes on
ScanIteration_SkipsLater(variant, r, closest, target) ==
    IF PrintsEventTimeFirst(variant) /\ r.snap = <<>>
    THEN [pc |-> "panic", closest |-> closest]
    ELSE IF r.err = "EOF" THEN [pc |-> "after", closest |-> closest]
    ELSE IF r.err # "nil" THEN [pc |-> "scan", closest |-> closest]
    ELSE IF r.snap[1].eventTime > target THEN [pc |-> "scan", closest |-> closest]
    ELSE [pc |-> "scan", closest |-> r.snap]

ScanIteration(variant, r, closest, target) ==
    IF PrintsEventTimeFirst(variant) /\ r.snap = <<>>
    THEN [pc |-> "panic", closest |-> closest]          \* nil pointer dereference
    ELSE IF r.err = "EOF" THEN [pc |-> "after", closest |-> closest]
    ELSE IF r.err # "nil" THEN [pc |-> "scan", closest |-> closest]
    ELSE IF r.snap[1].eventTime > target THEN [pc |-> "after", closest |-> closest]
    ELSE [pc |-> "scan", closest |-> r.snap]

RScan ==
    /\ rPc = "scan"
    /\ LET r == readNextSnapshot(Content(fs, ReaderPath), rPos)
           n == ScanIteration(rVariant, r, rClosest, rTarget)
       IN  /\ rPc' = n.pc
           /\ rClosest' = n.closest
           /\ rPos' = r.pos
           /\ rTrace' = LET e == [err |-> r.err, snap |-> r.snap, from |-> rPos,
                                   closest |-> n.closest]
                         IN  \* an iteration that repeats the one before it is
                             \* recorded once
                             IF rTrace # <<>> /\ rTrace[Len(rTrace)] = e THEN rTrace
                             ELSE Append(rTrace, e)
    /\ UNCHANGED <<rVariant, rTarget, rItems, rFault, bookVars>>
    /\ UNCHANGED <<osVars, fmVars, callerVars>>

\* After the loop: log.Fatal when closestSnapshot is nil, else the book is
\* built and printed.
RFinish ==
    /\ rPc = "after"
    /\ rPc' = IF rClosest = <<>> THEN "fatal_notfound" ELSE "found"
    /\ UNCHANGED <<rVariant, rTarget, rItems, rPos, rClosest, rTrace, rFault, bookVars>>
    /\ UNCHANGED <<osVars, fmVars, callerVars>>

RDone == rPc \in {"found", "fatal_notfound", "fatal_open", "panic"}

----------------------------------------------------------------------------
(* Files handed to the scan: built from items, each a well-formed frame or  *)
(* a damaged one.                                                           *)

MaxFrames == 3

L(p, q) == [price |-> p, quantity |-> q]

\* The snapshot stored for event time t in the files under scan.
SnapAt(t) ==
    [eventTime |-> t, lastUpdateId |-> t + 7, bids |-> << L(10, 1), L(9, 2) >>,
     asks |-> << L(11, 3) >>]

Times == {100, 200, 300}

Item(kind, t) == [kind |-> kind, t |-> t]

Items ==
    {Item("good", t) : t \in Times}
    \cup {Item("badbody", 0), Item("short", 100), Item("long", 100), Item("torn", 0)}

\* The bytes of an item:
\*   good    - the frame of SnapAt(t)
\*   badbody - a correct length prefix, a payload that does not parse
\*             (field 1 with the invalid wire type 7)
\*   short   - the frame of SnapAt(t) with a length prefix that stops before
\*             the levels
\*   long    - the frame of SnapAt(t) with a length prefix that also covers a
\*             following frame of SnapAt(300)
\*   torn    - two bytes of a length prefix
ItemBytes(it) ==
    LET p == Marshal(SnapAt(it.t))
    IN  CASE it.kind = "good"    -> Frame(SnapAt(it.t))
          [] it.kind = "badbody" -> PutUint32(1) \o << 15 >>
          [] it.kind = "short"   ->
                PutUint32(Len(p) - Len(MarshalLevels(26, SnapAt(it.t).bids))
                                 - Len(MarshalLevels(34, SnapAt(it.t).asks))) \o p
          [] it.kind = "long"    -> PutUint32(Len(p) + Len(Frame(SnapAt(300)))) \o p
          [] it.kind = "torn"    -> << 1, 0 >>

RECURSIVE FileOf(_)
FileOf(items) ==
    IF items = <<>> THEN <<>> ELSE ItemBytes(Head(items)) \o FileOf(Tail(items))

ItemSeqs == UNION {[1..n -> Items] : n \in 0..MaxFrames}

Targets == {50, 100, 250, 300, 1000, MsPerDay + 250}

----------------------------------------------------------------------------
(* Operating system: files and bufio.Writer.  An io value is the pair of    *)
(* all bufio.Writers and the file system, [w, fs]; hs are the os.Files.     *)

BufSize == 4096

NoHandles == <<>>

\* (*os.File).Write(p) on handle h, opened with O_APPEND: [fs, n, err]
FileWrite(hs, files, h, p) ==
    IF hs[h].closed \/ h \in faulty
    THEN [fs |-> files, n |-> 0, err |-> TRUE]
    ELSE [fs |-> [files EXCEPT ![hs[h].path] = << Content(files, hs[h].path) \o p >>],
          n |-> Len(p), err |-> FALSE]

\* (*bufio.Writer).Flush on writer h
Flush(hs, io, h) ==
    LET b == io.w[h]
    IN  IF b.err \/ b.buf = <<>> THEN io
        ELSE LET r == FileWrite(hs, io.fs, h, b.buf)
             IN  IF r.err
                 THEN [w  |-> [io.w EXCEPT ![h] = [buf |-> SubSeq(b.buf, r.n + 1, Len(b.buf)),
                                                   err |-> TRUE]],
                       fs |-> r.fs]
                 ELSE [w |-> [io.w EXCEPT ![h].buf = <<>>], fs |-> r.fs]

\* (*bufio.Writer).Write(p) on writer h
RECURSIVE BufWrite(_, _, _, _)
BufWrite(hs, io, h, p) ==
    LET b     == io.w[h]
        avail == BufSize - Len(b.buf)
    IN  IF b.err THEN io
        ELSE IF Len(p) <= avail
        THEN [io EXCEPT !.w[h].buf = @ \o p]
        ELSE IF b.buf = <<>>
        THEN LET r == FileWrite(hs, io.fs, h, p)     \* large write, empty buffer
             IN  IF r.err THEN [w |-> [io.w EXCEPT ![h].err = TRUE], fs |-> r.fs]
                 ELSE [io EXCEPT !.fs = r.fs]
        ELSE BufWrite(hs,
                      Flush(hs, [io EXCEPT !.w[h].buf = @ \o SubSeq(p, 1, avail)], h),
                      h, SubSeq(p, avail + 1, Len(p)))

----------------------------------------------------------------------------
(* The clock *)

\* Time passes, up to the next UTC midnight.  Between two midnights the clock
\* only matters through its date and its order, which the midnights keep.
Tick ==
    /\ DateOf(now) < MaxDate
    /\ now' = (DateOf(now) + 1) * MsPerDay
    /\ UNCHANGED <<fs, handles, writers, ioFails, faulty>>
    /\ UNCHANGED <<fmVars, callerVars, readerVars>>

----------------------------------------------------------------------------
(* FileManager and its callers *)

\* Two concurrent callers of writeSnapshot
Callers == {1, 2}

MaxMsgs == 2

MaxIOFails == 1

\* Stream names the feed delivers
StreamSymbols == {"ETHUSDT", "ethbtc"}

\* Level lists of a feed message, after parseLevels
Books ==
    { [bids |-> << L(10, 1), L(10, 2) >>, asks |-> << L(11, 3) >>] }

NoMsg ==
    [symbol |-> "", snapshot |-> ZeroSnapshot, writer |-> 0, utcDate |-> NoDate]

\* How a writeSnapshot call returned: its arguments, the writer and date of its
\* getWriter, whether it logged an error.
Returned(c, logged) ==
    [returned |-> TRUE, caller |-> c, symbol |-> msg[c].symbol, snapshot |-> msg[c].snapshot,
     writer |-> msg[c].writer, utcDate |-> msg[c].utcDate, logged |-> logged]

NotReturned ==
    [returned |-> FALSE, caller |-> 0, symbol |-> "", snapshot |-> ZeroSnapshot,
     writer |-> 0, utcDate |-> NoDate, logged |-> FALSE]

\* NewFileManager
NewFileManager ==
    /\ mu = 0
    /\ fileWriters = [s \in LowerSymbols |-> 0]
    /\ openFiles = [s \in LowerSymbols |-> 0]
    /\ currentDates = [s \in LowerSymbols |-> NoDate]

\* runCollector: a message is read, stamped with the receipt time and handed
\* to writeSnapshot.
Recv(c) ==
    /\ pc[c] = "recv"
    /\ nMsgs < MaxMsgs
    /\ \E sym \in StreamSymbols, book \in Books :
         msg' = [msg EXCEPT ![c] =
                    [symbol   |-> sym,
                     snapshot |-> [eventTime |-> now, lastUpdateId |-> nMsgs + 1,
                                   bids |-> book.bids, asks |-> book.asks],
                     writer   |-> 0,
                     utcDate  |-> NoDate]]
    /\ nMsgs' = nMsgs + 1
    /\ pc' = [pc EXCEPT ![c] = "getWriter"]
    /\ last' = [last EXCEPT ![c] = NotReturned]
    /\ UNCHANGED appended
    /\ UNCHANGED <<osVars, fmVars, readerVars>>

\* Mutant of CloseOld: the writer is flushed, the file is not closed
CloseOld_KeepsOpen(hs, io, symbolLower) ==
    IF openFiles[symbolLower] # 0
    THEN [hs |-> hs, io |-> Flush(hs, io, fileWriters[symbolLower])]
    ELSE [hs |-> hs, io |-> io]

\* Mutant of CloseOld: the open files of all symbols are closed
CloseOld_AllSymbols(hs, io, symbolLower) ==
    [hs |-> [h \in DOMAIN hs |-> [hs[h] EXCEPT !.closed = TRUE]], io |-> io]

\* The part of getWriter that closes the symbol's open file: Flush, Close.
CloseOld(hs, io, symbolLower) ==
    IF openFiles[symbolLower] # 0
    THEN [hs |-> [hs EXCEPT ![openFiles[symbolLower]].closed = TRUE],
          io |-> Flush(hs, io, fileWriters[symbolLower])]
    ELSE [hs |-> hs, io |-> io]

\* Mutant of MustRotate: a file is opened on every call
MustRotate_Always(symbolLower, utcDate) == TRUE

\* Mutant of MustRotate: a file is opened only when the symbol has none
MustRotate_OnlyFirst(symbolLower, utcDate) ==
    currentDates[symbolLower] = NoDate

\* Whether getWriter must open a file
MustRotate(symbolLower, utcDate) ==
    currentDates[symbolLower] # utcDate

\* Mutant of MayLock: the lock excludes nobody
MayLock_NoExclusion(c) == TRUE

\* Whether a caller may take fm.mu
MayLock(c) == mu = 0

\* fm.getWriter(symbol) as called by writeSnapshot: Lock, the rotation
\* decision, the deferred Unlock.  openFails: MkdirAll or OpenFile fails.
GetWriter(c) ==
    /\ pc[c] = "getWriter"
    /\ MayLock(c)
    /\ LET utcDate     == DateOf(now)
           symbolLower == ToLower(msg[c].symbol)
           fileName    == FileName(symbolLower, utcDate)
       IN  IF MustRotate(symbolLower, utcDate)
           THEN LET old == CloseOld(handles, [w |-> writers, fs |-> fs], symbolLower)
                    h   == Len(handles) + 1
                IN  \E openFails \in BOOLEAN :
                      IF openFails
                      THEN /\ ioFails < MaxIOFails
                           /\ ioFails' = ioFails + 1
                           /\ handles' = old.hs
                           /\ writers' = old.io.w
                           /\ fs' = old.io.fs
                           /\ last' = [last EXCEPT ![c] = Returned(c, TRUE)]
                           /\ msg' = [msg EXCEPT ![c] = NoMsg]
                           /\ pc' = [pc EXCEPT ![c] = "recv"]
                           /\ UNCHANGED <<fileWriters, openFiles, currentDates>>
                      ELSE /\ handles' = Append(old.hs, [path |-> fileName, closed |-> FALSE])
                           /\ writers' = Append(old.io.w, [buf |-> <<>>, err |-> FALSE])
                           /\ fs' = IF Exists(old.io.fs, fileName) THEN old.io.fs
                                    ELSE [old.io.fs EXCEPT ![fileName] = << <<>> >>]
                           /\ openFiles' = [openFiles EXCEPT ![symbolLower] = h]
                           /\ fileWriters' = [fileWriters EXCEPT ![symbolLower] = h]
                           /\ currentDates' = [currentDates EXCEPT ![symbolLower] = utcDate]
                           /\ msg' = [msg EXCEPT ![c].writer = h, ![c].utcDate = utcDate]
                           /\ pc' = [pc EXCEPT ![c] = "wsLock"]
                           /\ UNCHANGED <<ioFails, last>>
           ELSE /\ msg' = [msg EXCEPT ![c].writer = fileWriters[symbolLower],
                                      ![c].utcDate = utcDate]
                /\ pc' = [pc EXCEPT ![c] = "wsLock"]
                /\ UNCHANGED <<handles, writers, fs, ioFails, last,
                               fileWriters, openFiles, currentDates>>
    /\ UNCHANGED <<now, faulty, mu, nMsgs, appended, readerVars>>

\* writeSnapshot, after getWriter and proto.Marshal: fm.mu.Lock()
WsLock(c) ==
    /\ pc[c] = "wsLock"
    /\ MayLock(c)
    /\ mu' = c
    /\ pc' = [pc EXCEPT ![c] = "wsLen"]
    /\ UNCHANGED <<fileWriters, openFiles, currentDates>>
    /\ UNCHANGED <<msg, nMsgs, last, appended>>
    /\ UNCHANGED <<osVars, readerVars>>

\* writer.Write(lenBuf)
WriteLen(c) ==
    /\ pc[c] = "wsLen"
    /\ LET io == BufWrite(handles, [w |-> writers, fs |-> fs], msg[c].writer,
                          PutUint32(Len(Marshal(msg[c].snapshot))))
       IN  /\ writers' = io.w
           /\ fs' = io.fs
    /\ pc' = [pc EXCEPT ![c] = "wsBytes"]
    /\ UNCHANGED <<now, handles, ioFails, faulty, fmVars, msg, nMsgs, last, appended,
                   readerVars>>

\* writer.Write(bytes)
WriteBytes(c) ==
    /\ pc[c] = "wsBytes"
    /\ LET io == BufWrite(handles, [w |-> writers, fs |-> fs], msg[c].writer,
                          Marshal(msg[c].snapshot))
       IN  /\ writers' = io.w
           /\ fs' = io.fs
    /\ pc' = [pc EXCEPT ![c] = "wsFlush"]
    /\ UNCHANGED <<now, handles, ioFails, faulty, fmVars, msg, nMsgs, last, appended,
                   readerVars>>

\* writer.Flush(), the deferred fm.mu.Unlock(), return
FlushUnlock(c) ==
    /\ pc[c] = "wsFlush"
    /\ LET h     == msg[c].writer
           io    == Flush(handles, [w |-> writers, fs |-> fs], h)
           wrote == ~io.w[h].err
       IN  /\ writers' = io.w
           /\ fs' = io.fs
           /\ faulty' = IF writers[h].err THEN faulty ELSE faulty \ {h}
           /\ last' = [last EXCEPT ![c] = Returned(c, FALSE)]
           /\ appended' = IF wrote
                          THEN [appended EXCEPT ![handles[h].path] =
                                   Append(@, Returned(c, FALSE))]
                          ELSE appended
    /\ mu' = 0
    /\ msg' = [msg EXCEPT ![c] = NoMsg]
    /\ pc' = [pc EXCEPT ![c] = "recv"]
    /\ UNCHANGED <<now, handles, ioFails, fileWriters, openFiles, currentDates,
                   nMsgs, readerVars>>

----------------------------------------------------------------------------
(* Specifications *)

\* Nothing folded, nothing printed
NoBook == [bids |-> <<>>, asks |-> <<>>]

NoRows == [asks |-> <<>>, bids |-> <<>>]

BookOff ==
    /\ rBook = NoBook
    /\ rDepth = 0
    /\ rRows = NoRows

ReaderOff ==
    /\ rVariant = "part_000"
    /\ rTarget = 0
    /\ rItems = <<>>
    /\ rPc = "off"
    /\ rPos = 0
    /\ rClosest = <<>>
    /\ rTrace = <<>>
    /\ rFault = FALSE
    /\ BookOff

WriterInit ==
    /\ now = 0
    /\ handles = NoHandles
    /\ writers = <<>>
    /\ ioFails = 0
    /\ faulty = {}
    /\ NewFileManager
    /\ pc = [c \in Callers |-> "recv"]
    /\ msg = [c \in Callers |-> NoMsg]
    /\ nMsgs = 0
    /\ last = [c \in Callers |-> NotReturned]
    /\ appended = [p \in Paths |-> <<>>]

\* The ingestion process: the clock and the callers of writeSnapshot.
Init ==
    /\ WriterInit
    /\ fs = NoFiles
    /\ ReaderOff

Next ==
    \/ Tick
    \/ \E c \in Callers : Recv(c)
    \/ \E c \in Callers : GetWriter(c)
    \/ \E c \in Callers : WsLock(c)
    \/ \E c \in Callers : WriteLen(c)
    \/ \E c \in Callers : WriteBytes(c)
    \/ \E c \in Callers : FlushUnlock(c)

Spec == Init /\ [][Next]_vars

\* Every call opens at most one file
HandleIds == 1..MaxMsgs

\* The ingestion process on a device that can refuse a write: the next write
\* to an open file fails (a full disk, an I/O error) and writes nothing.
WriteFault(h) ==
    /\ h <= Len(handles)
    /\ ~handles[h].closed
    /\ faulty = {}
    /\ ioFails < MaxIOFails
    /\ faulty' = {h}
    /\ ioFails' = ioFails + 1
    /\ UNCHANGED <<now, fs, handles, writers>>
    /\ UNCHANGED <<fmVars, callerVars, readerVars>>

NextIO ==
    \/ Next
    \/ \E h \in HandleIds : WriteFault(h)

SpecIO == Init /\ [][NextIO]_vars

\* One query of a reader program against a file of the data directory.
InitScan ==
    /\ WriterInit
    /\ rVariant \in ReaderVariants
    /\ rTarget \in Targets
    /\ rItems \in ItemSeqs
    /\ fs = [NoFiles EXCEPT ![FileName(ToLower(ReaderSymbol), 0)] = << FileOf(rItems) >>]
    /\ rPc = "open"
    /\ rPos = 0
    /\ rClosest = <<>>
    /\ rTrace = <<>>
    /\ rFault = FALSE
    /\ BookOff

NextScan ==
    \/ ROpen
    \/ RScan
    \/ RFinish

SpecScan == InitScan /\ [][NextScan]_vars

----------------------------------------------------------------------------
(* The scan, stated on the items a file was built from *)

Last(seq) == seq[Len(seq)]

ScannedFile == Content(fs, FileName(ToLower(ReaderSymbol), 0))

TargetDayHasFile == DateOf(rTarget) = 0

AllOfKinds(items, kinds) == \A i \in 1..Len(items) : items[i].kind \in kinds

NonDecreasing(items) ==
    \A i, j \in 1..Len(items) : i <= j => items[i].t <= items[j].t

\* Offset (0-based) at which item k of the file starts
ItemStart(items, k) == Len(FileOf(SubSeq(items, 1, k - 1)))

RECURSIVE SelectGood(_)
SelectGood(items) ==
    IF items = <<>> THEN <<>>
    ELSE IF Head(items).kind = "good" THEN << Head(items) >> \o SelectGood(Tail(items))
    ELSE SelectGood(Tail(items))

\* The query's answer on a sequence of well-formed frames: the frames are
\* taken in file order up to the first one later than the target, the answer
\* is the last of those taken; <<>> is NotFound.
RECURSIVE NearestFrom(_, _, _)
NearestFrom(items, target, best) ==
    IF items = <<>> \/ Head(items).t > target THEN best
    ELSE NearestFrom(Tail(items), target, << SnapAt(Head(items).t) >>)

Nearest(items, target) == NearestFrom(items, target, <<>>)

\* The query's outcome: the snapshot found, <<>> for NotFound; only
\* meaningful once the reader is done.
RReturned == rPc \in {"found", "fatal_notfound"}

RResult == IF rPc = "found" THEN rClosest ELSE <<>>

----------------------------------------------------------------------------
(* C1: on a file of well-formed frames with non-decreasing eventTime, the   *)
(* scan returns the last frame with eventTime <= target, and NotFound       *)
(* exactly when there is none.  The reader that prints snapshot.EventTime   *)
(* before it checks err does not return at all when the scan reaches the    *)
(* end of the file.                                                         *)
C1_NearestAtOrBefore ==
    (/\ RDone
     /\ TargetDayHasFile
     /\ AllOfKinds(rItems, {"good"})
     /\ NonDecreasing(rItems))
    => LET Q == {i \in 1..Len(rItems) : rItems[i].t <= rTarget}
       IN  /\ RReturned
           /\ (Q = {}) <=> (rPc = "fatal_notfound")
           /\ Q # {} => rClosest = << SnapAt(rItems[CHOOSE i \in Q : \A j \in Q : j <= i].t) >>

(* C2: when readNextSnapshot reports end-of-stream and no frame later than  *)
(* the target was decoded, the scan of reader.go ends normally with the     *)
(* running candidate as its result.                                         *)
C2_EndOfStreamReturnsCandidate ==
    (/\ rVariant = "reader.go"
     /\ rTrace # <<>>
     /\ Last(rTrace).err = "EOF")
    => /\ rPc \in {"after", "found", "fatal_notfound"}
       /\ rPc = "found" => rClosest = Last(rTrace).closest

(* C9: in part_000, a frame with a correct length prefix and a payload that *)
(* does not parse is skipped: every call starts at a frame boundary, and    *)
(* the result is the one the scan gives on the file without such frames.    *)
C9_BadPayloadSkipped ==
    (/\ rVariant = "part_000"
     /\ TargetDayHasFile
     /\ AllOfKinds(rItems, {"good", "badbody"}))
    => /\ \A k \in 1..Len(rTrace) :
            /\ k <= Len(rItems) => rTrace[k].from = ItemStart(rItems, k)
            /\ (k <= Len(rItems) /\ rItems[k].kind = "badbody") =>
                 /\ rTrace[k].err = "Unmarshal"
                 /\ rTrace[k].closest = (IF k = 1 THEN <<>> ELSE rTrace[k - 1].closest)
       /\ RDone => /\ RReturned
                   /\ RResult = Nearest(SelectGood(rItems), rTarget)

C9_Witness ==
    /\ rVariant = "part_000"
    /\ rItems = << Item("good", 100), Item("badbody", 0), Item("good", 200) >>
    /\ rTarget = 250
    /\ rPc = "found"
    /\ rClosest = << SnapAt(200) >>
    /\ Len(rTrace) = 4
    /\ rTrace[2].err = "Unmarshal"

\* Index of the first item that is not a well-formed frame, 0 when none
FirstDamaged(items) ==
    LET D == {i \in 1..Len(items) : items[i].kind # "good"}
    IN  IF D = {} THEN 0 ELSE CHOOSE i \in D : \A j \in D : i <= j

\* Whether the readNextSnapshot call k of the scan met a length prefix that
\* announces more payload bytes than the file has left
PrefixExceedsFile(k) ==
    LET from == rTrace[k].from
        left == Len(ScannedFile) - from - 4
    IN  /\ left >= 0
        /\ Uint32(Slice(ScannedFile, from, 4)) > left

ClosestBefore(k) == IF k = 1 THEN <<>> ELSE rTrace[k - 1].closest

(* C10 as claimed: in part_000, a length prefix that differs from the       *)
(* length of its payload, too large or too small, ends the scan there: the  *)
(* result is the candidate of the frames before it and nothing from that    *)
(* prefix on is decoded as a frame.                                         *)
C10_AnyWrongPrefixEndsScan ==
    LET k == FirstDamaged(rItems)
    IN  (/\ rVariant = "part_000"
         /\ TargetDayHasFile
         /\ k # 0
         /\ rItems[k].kind \in {"short", "long"})
        => /\ \A j \in k..Len(rTrace) : rTrace[j].err # "nil"
           /\ RDone => /\ RReturned
                       /\ RResult = Nearest(SubSeq(rItems, 1, k - 1), rTarget)

(* C10 as amended: in part_000, a length prefix that announces more payload *)
(* bytes than remain in the file ends the scan there: that call decodes     *)
(* nothing and leaves the candidate as it was, only an end-of-stream call   *)
(* can follow it, and the result is the candidate held before it.           *)
C10_PrefixBeyondFileEndsScan ==
    rVariant = "part_000" =>
        \A k \in 1..Len(rTrace) :
            PrefixExceedsFile(k) =>
                /\ rTrace[k].err \in {"EOF", "UnexpectedEOF"}
                /\ rTrace[k].snap = <<>>
                /\ rTrace[k].closest = ClosestBefore(k)
                /\ \/ k = Len(rTrace)
                   \/ k + 1 = Len(rTrace) /\ rTrace[k + 1].err = "EOF"
                /\ rClosest = ClosestBefore(k)
                /\ RDone => RReturned /\ RResult = ClosestBefore(k)

C10_Witness ==
    /\ rVariant = "part_000"
    /\ rItems = << Item("good", 100), Item("long", 100) >>
    /\ rTarget = 250
    /\ Len(rTrace) = 3
    /\ PrefixExceedsFile(2)
    /\ rTrace[2].err = "UnexpectedEOF"
    /\ rPc = "found"
    /\ rClosest = << SnapAt(100) >>

----------------------------------------------------------------------------
(* The writer, stated on the files *)

\* Whether bytes occur in content as a contiguous run
Occurs(bytes, content) ==
    \E i \in 0..(Len(content) - Len(bytes)) : Slice(content, i, Len(bytes)) = bytes

\* Whether the frame of a snapshot is in a log file of the symbol
FramePresent(symbol, snapshot) ==
    \E p \in Paths :
        /\ p[1] = ToLower(symbol)
        /\ Exists(fs, p)
        /\ Occurs(Frame(snapshot), Content(fs, p))

RECURSIVE FramesOf(_)
FramesOf(calls) ==
    IF calls = <<>> THEN <<>> ELSE Frame(Head(calls).snapshot) \o FramesOf(Tail(calls))

\* Successive readNextSnapshot calls on a file's bytes from offset pos, up to
\* and with the first one that reports an error
RECURSIVE ReadAll(_, _)
ReadAll(b, pos) ==
    LET r == readNextSnapshot(b, pos)
    IN  IF r.err # "nil" THEN << r >> ELSE << r >> \o ReadAll(b, r.pos)

\* A file the symbol has rotated away from: its handle is closed, or the
\* symbol's recorded date is another one.
RotatedAway(p) ==
    /\ Exists(fs, p)
    /\ \/ currentDates[p[1]] # p[2]
       \/ \E h \in 1..Len(handles) : handles[h].path = p /\ handles[h].closed

OpenHandlesOf(s) ==
    {h \in 1..Len(handles) : handles[h].path[1] = s /\ ~handles[h].closed}

(* C3: the rotation decision of a writeSnapshot call and its frame write    *)
(* are one critical section: while a call is between its getWriter and its  *)
(* own write, no other call takes a rotation decision, closes or opens a    *)
(* file, or writes.                                                         *)
C3_DecisionAndWriteAtomic ==
    [][ \A c, d \in Callers :
          (c # d /\ pc[c] = "wsLock" /\ pc'[c] = "wsLock")
          => ~(pc[d] \in {"getWriter", "wsLen", "wsBytes", "wsFlush"} /\ pc'[d] # pc[d])
      ]_vars

(* C4: a writeSnapshot call that returned without logging an error has its  *)
(* complete frame in a log file of its symbol, and its writer's buffer is   *)
(* empty.                                                                   *)
C4_Durability ==
    \A c \in Callers :
        (last[c].returned /\ ~last[c].logged)
        => /\ FramePresent(last[c].symbol, last[c].snapshot)
           /\ writers[last[c].writer].buf = <<>>

(* C5: at all times every log file is a concatenation of whole frames, one  *)
(* per call whose bytes reached it, each prefix directly followed by its    *)
(* own payload.                                                             *)
C5_WholeFrames ==
    \A p \in Paths :
        /\ Exists(fs, p) => Content(fs, p) = FramesOf(appended[p])
        /\ ~Exists(fs, p) => appended[p] = <<>>

C5_Witness ==
    /\ pc[1] = "wsLock"
    /\ pc[2] = "wsBytes"
    /\ msg[1].writer = msg[2].writer
    /\ writers[msg[2].writer].buf = PutUint32(Len(Marshal(msg[2].snapshot)))
    /\ C5_WholeFrames

(* C6: a frame goes to the file of (lower-cased symbol, UTC date read by    *)
(* its getWriter); a file has one handle; a symbol has at most one open     *)
(* handle, that of its recorded date.                                       *)
C6_FileIdentity ==
    /\ \A p \in Paths : \A i \in 1..Len(appended[p]) :
           p = FileName(ToLower(appended[p][i].symbol), appended[p][i].utcDate)
    /\ \A c \in Callers :
           msg[c].writer # 0 =>
               handles[msg[c].writer].path
                   = FileName(ToLower(msg[c].symbol), msg[c].utcDate)
    /\ \A h1, h2 \in 1..Len(handles) :
           handles[h1].path = handles[h2].path => h1 = h2
    /\ \A s \in LowerSymbols :
           /\ Cardinality(OpenHandlesOf(s)) <= 1
           /\ \A h \in OpenHandlesOf(s) :
                  /\ openFiles[s] = h
                  /\ handles[h].path = FileName(s, currentDates[s])

C6_Witness ==
    /\ Len(handles) = 2
    /\ handles[1] = [path |-> FileName("ethusdt", 0), closed |-> TRUE]
    /\ handles[2] = [path |-> FileName("ethusdt", 1), closed |-> FALSE]
    /\ Len(appended[FileName("ethusdt", 0)]) = 1
    /\ Len(appended[FileName("ethusdt", 1)]) = 1
    /\ appended[FileName("ethusdt", 0)][1].symbol = "ETHUSDT"

(* C7: a log file only grows at its end, and the file a symbol has rotated  *)
(* away from never changes again.                                           *)
C7_AppendOnly ==
    [][ \A p \in Paths :
          /\ Exists(fs, p) => /\ Exists(fs', p)
                              /\ IsPrefix(Content(fs, p), Content(fs', p))
          /\ RotatedAway(p) => fs'[p] = fs[p]
      ]_vars

\* A write to a file already rotated away from was attempted and refused,
\* and the file is as it was.
C7_Witness ==
    \E h \in 1..Len(handles) :
        /\ handles[h].closed
        /\ writers[h].err
        /\ writers[h].buf # <<>>
        /\ RotatedAway(handles[h].path)
        /\ Content(fs, handles[h].path) = FramesOf(appended[handles[h].path])

(* C8: successive readNextSnapshot calls on a file written by writeSnapshot *)
(* return the appended snapshots, all fields and level order kept, in       *)
(* append order, each call consuming one frame, and then end-of-stream.     *)
C8_RoundTrip ==
    \A p \in Paths :
        Exists(fs, p) =>
            LET rs == ReadAll(Content(fs, p), 0)
                n  == Len(appended[p])
            IN  /\ Len(rs) = n + 1
                /\ \A k \in 1..n :
                       /\ rs[k].err = "nil"
                       /\ rs[k].snap = << appended[p][k].snapshot >>
                       /\ rs[k].pos = Len(FramesOf(SubSeq(appended[p], 1, k)))
                /\ rs[n + 1].err = "EOF"

C8_Witness ==
    \E p \in Paths :
        /\ Len(appended[p]) = 2
        /\ appended[p][1].snapshot.eventTime = 0
        /\ appended[p][2].snapshot.lastUpdateId = 2
        /\ Len(ReadAll(Content(fs, p), 0)) = 3

----------------------------------------------------------------------------
(* C11: a query that finds nothing - the file of the target's day is        *)
(* absent, or the file holds well-formed frames and none has eventTime <=   *)
(* target - ends with a NotFound outcome and not with a fatal exit of the   *)
(* process.                                                                 *)
FatalExits == {"fatal_open", "fatal_notfound"}

NoFrameQualifies ==
    /\ AllOfKinds(rItems, {"good"})
    /\ \A i \in 1..Len(rItems) : rItems[i].t > rTarget

C11_NotFoundIsNotFatal ==
    (/\ RDone
     /\ ~TargetDayHasFile \/ NoFrameQualifies)
    => rPc \notin FatalExits

----------------------------------------------------------------------------
(* C12: an I/O failure of writeSnapshot is local to one snapshot.  When the *)
(* creation of the file or the write of the frame fails, the call logs the  *)
(* failure; and a call whose own I/O does not fail - the file is created or *)
(* already open, its handle is open and the device accepts the write -      *)
(* appends its frame to the file, whatever failed before it.                *)

\* Caller c returns from writeSnapshot in this step
ReturnsFromGetWriter(c) == pc[c] = "getWriter" /\ pc'[c] = "recv"

ReturnsFromFlush(c) == pc[c] = "wsFlush" /\ pc'[c] = "recv"

\* The write of c's frame to the file fails: the file is closed or the device
\* refuses the write
OwnWriteFails(c) ==
    \/ handles[msg[c].writer].closed
    \/ msg[c].writer \in faulty

FailureIsLogged(c) ==
    /\ ReturnsFromGetWriter(c) => last'[c].logged
    /\ (ReturnsFromFlush(c) /\ OwnWriteFails(c)) => last'[c].logged

UnfailedAppendWrites(c) ==
    (ReturnsFromFlush(c) /\ ~OwnWriteFails(c))
    => LET p == handles[msg[c].writer].path
       IN  Content(fs', p) = Content(fs, p) \o Frame(msg[c].snapshot)

C12_IOFailureIsLocal ==
    [][\A c \in Callers : FailureIsLogged(c) /\ UnfailedAppendWrites(c)]_vars

----------------------------------------------------------------------------
(* main after the scan: closestSnapshot is folded into an OrderBook and the *)
(* book is printed.  A map[float64]float64 is a function from its keys.     *)

MaxLevels == 3

EmptyMap == [p \in {} |-> 0]

\* Mutant of FoldLevels: a price already in the map keeps its quantity
RECURSIVE FoldLevels_FirstWins(_, _)
FoldLevels_FirstWins(levels, m) ==
    IF levels = <<>> THEN m
    ELSE LET l == Head(levels)
         IN  FoldLevels_FirstWins(Tail(levels),
                 [p \in DOMAIN m \cup {l.price} |->
                     IF p \in DOMAIN m THEN m[p] ELSE l.quantity])

\* for _, l := range levels { m[l.Price] = l.Quantity }
RECURSIVE FoldLevels(_, _)
FoldLevels(levels, m) ==
    IF levels = <<>> THEN m
    ELSE LET l == Head(levels)
         IN  FoldLevels(Tail(levels),
                 [p \in DOMAIN m \cup {l.price} |->
                     IF p = l.price THEN l.quantity ELSE m[p]])

\* book := &OrderBook{...} and the two range loops
FoldBook(snapshot) ==
    [bids |-> FoldLevels(snapshot.bids, EmptyMap),
     asks |-> FoldLevels(snapshot.asks, EmptyMap)]

\* for p := range m { prices = append(prices, p) }: the keys in the order the
\* iteration yields them, which Go leaves open; the sort that follows makes
\* the outcome the same for every order.
RECURSIVE Keys(_)
Keys(m) ==
    IF DOMAIN m = {} THEN <<>>
    ELSE LET p == CHOOSE k \in DOMAIN m : TRUE
         IN  << p >> \o Keys([k \in DOMAIN m \ {p} |-> m[k]])

\* x put into the ascending sequence s
RECURSIVE InsertAscending(_, _)
InsertAscending(x, s) ==
    IF s = <<>> THEN << x >>
    ELSE IF x <= Head(s) THEN << x >> \o s
    ELSE << Head(s) >> \o InsertAscending(x, Tail(s))

\* sort.Float64s(prices)
RECURSIVE Float64s(_)
Float64s(prices) ==
    IF prices = <<>> THEN <<>>
    ELSE InsertAscending(Head(prices), Float64s(Tail(prices)))

\* x put into the descending sequence s
RECURSIVE InsertDescending(_, _)
InsertDescending(x, s) ==
    IF s = <<>> THEN << x >>
    ELSE IF x >= Head(s) THEN << x >> \o s
    ELSE << Head(s) >> \o InsertDescending(x, Tail(s))

\* Mutant of SortReverse: the order is not reversed
SortReverse_Ascending(prices) == Float64s(prices)

\* sort.Sort(sort.Reverse(sort.Float64Slice(prices)))
RECURSIVE SortReverse(_)
SortReverse(prices) ==
    IF prices = <<>> THEN <<>>
    ELSE InsertDescending(Head(prices), SortReverse(Tail(prices)))

\* for i := 0; i < depth && i < len(prices); i++ { print prices[i], m[prices[i]] }
\* A row is the pair <<price, quantity>> it prints.
RECURSIVE PrintRows(_, _, _, _)
PrintRows(i, prices, m, depth) ==
    IF i < depth /\ i < Len(prices)
    THEN << << prices[i + 1], m[prices[i + 1]] >> >> \o PrintRows(i + 1, prices, m, depth)
    ELSE <<>>

printBook(book, depth) ==
    [asks |-> PrintRows(0, Float64s(Keys(book.asks)), book.asks, depth),
     bids |-> PrintRows(0, SortReverse(Keys(book.bids)), book.bids, depth)]

\* main: the fold of closestSnapshot
Fold ==
    /\ rPc = "found"
    /\ rBook' = FoldBook(rClosest[1])
    /\ rPc' = "folded"
    /\ UNCHANGED <<rVariant, rTarget, rItems, rPos, rClosest, rTrace, rFault, rDepth, rRows>>
    /\ UNCHANGED <<osVars, fmVars, callerVars>>

\* main: printBook(book, depth)
PrintBook ==
    /\ rPc = "folded"
    /\ rRows' = printBook(rBook, rDepth)
    /\ rPc' = "printed"
    /\ UNCHANGED <<rVariant, rTarget, rItems, rPos, rClosest, rTrace, rFault, rBook, rDepth>>
    /\ UNCHANGED <<osVars, fmVars, callerVars>>

\* Level lists of the snapshot the scan found: prices repeat within a side
\* and across the sides, out of order.
BidLevels == {L(10, 1), L(10, 2), L(12, 1), L(11, 1)}

AskLevels == {L(12, 3), L(10, 4), L(11, 3), L(12, 4)}

LevelSeqs(S) == UNION {[1..n -> S] : n \in 0..MaxLevels}

\* main prints with depth 20; printBook takes any depth
Depths == {0, 1, 2, 20}

InitBook ==
    /\ WriterInit
    /\ fs = NoFiles
    /\ rVariant = "reader.go"
    /\ rTarget = 100
    /\ rItems = <<>>
    /\ rPc = "found"
    /\ rPos = 0
    /\ rClosest \in {<< [eventTime |-> 100, lastUpdateId |-> 107, bids |-> b, asks |-> a] >> :
                        b \in LevelSeqs(BidLevels), a \in LevelSeqs(AskLevels)}
    /\ rTrace = <<>>
    /\ rFault = FALSE
    /\ rBook = NoBook
    /\ rDepth \in Depths
    /\ rRows = NoRows

NextBook ==
    \/ Fold
    \/ PrintBook

SpecBook == InitBook /\ [][NextBook]_vars

----------------------------------------------------------------------------
(* C13: the fold is last-write-wins per side.  On each side the book has    *)
(* exactly the distinct prices of that side's level list as its keys, each  *)
(* mapped to the quantity of the last level with that price in the list;    *)
(* the bids of the book depend on the bid levels only and the asks on the   *)
(* ask levels only.                                                         *)
PricesOf(levels) == {levels[i].price : i \in 1..Len(levels)}

LastIndexOf(levels, p) ==
    CHOOSE i \in 1..Len(levels) :
        /\ levels[i].price = p
        /\ \A j \in 1..Len(levels) : levels[j].price = p => j <= i

IsLastWriteWins(levels, m) ==
    /\ DOMAIN m = PricesOf(levels)
    /\ Cardinality(DOMAIN m) = Cardinality(PricesOf(levels))
    /\ \A p \in DOMAIN m : m[p] = levels[LastIndexOf(levels, p)].quantity

C13_LastWriteWins ==
    rPc \in {"folded", "printed"}
    => /\ IsLastWriteWins(rClosest[1].bids, rBook.bids)
       /\ IsLastWriteWins(rClosest[1].asks, rBook.asks)

C13_Witness ==
    /\ rPc = "folded"
    /\ rClosest[1].bids = << L(10, 1), L(12, 1), L(10, 2) >>
    /\ rClosest[1].asks = << L(10, 4) >>
    /\ rBook.bids[10] = 2
    /\ rBook.bids[12] = 1
    /\ rBook.asks[10] = 4
    /\ Cardinality(DOMAIN rBook.bids) = 2

----------------------------------------------------------------------------
(* C14: printBook prints, for the asks, the min(depth, number of ask        *)
(* prices) lowest prices of the book in strictly ascending order, and for   *)
(* the bids the min(depth, number of bid prices) highest prices in strictly *)
(* descending order; each row carries the quantity the book maps its price  *)
(* to.                                                                      *)
Min(a, b) == IF a <= b THEN a ELSE b

RowPrices(rows) == {rows[i][1] : i \in 1..Len(rows)}

RowsCarryQuantities(rows, m) ==
    \A i \in 1..Len(rows) : rows[i][1] \in DOMAIN m /\ rows[i][2] = m[rows[i][1]]

C14_RenderOrder ==
    rPc = "printed"
    => /\ Len(rRows.asks) = Min(rDepth, Cardinality(DOMAIN rBook.asks))
       /\ \A i, j \in 1..Len(rRows.asks) : i < j => rRows.asks[i][1] < rRows.asks[j][1]
       /\ \A p \in DOMAIN rBook.asks \ RowPrices(rRows.asks) :
              \A q \in RowPrices(rRows.asks) : q < p
       /\ RowsCarryQuantities(rRows.asks, rBook.asks)
       /\ Len(rRows.bids) = Min(rDepth, Cardinality(DOMAIN rBook.bids))
       /\ \A i, j \in 1..Len(rRows.bids) : i < j => rRows.bids[i][1] > rRows.bids[j][1]
       /\ \A p \in DOMAIN rBook.bids \ RowPrices(rRows.bids) :
              \A q \in RowPrices(rRows.bids) : q > p
       /\ RowsCarryQuantities(rRows.bids, rBook.bids)

C14_Witness ==
    /\ rPc = "printed"
    /\ rDepth = 2
    /\ rClosest[1].asks = << L(12, 3), L(10, 4), L(11, 3) >>
    /\ rClosest[1].bids = << L(10, 1), L(12, 1), L(11, 1) >>
    /\ rRows.asks = << <<10, 4>>, <<11, 3>> >>
    /\ rRows.bids = << <<12, 1>>, <<11, 1>> >>

----------------------------------------------------------------------------
(* C15: early stop.  On a file of well-formed frames, in whatever order of  *)
(* eventTime, that holds a frame with eventTime > target, the scan reads    *)
(* the frames in file order up to the first such frame and no further; its  *)
(* result is the frame just before that one (the last with eventTime <=     *)
(* target among the frames read), or NotFound when that frame is the first  *)
(* of the file - also when a later frame has eventTime <= target.           *)

\* Index of the first frame later than the target, 0 when there is none
FirstExceeding ==
    IF \E i \in 1..Len(rItems) : rItems[i].t > rTarget
    THEN CHOOSE i \in 1..Len(rItems) :
             /\ rItems[i].t > rTarget
             /\ \A j \in 1..(i - 1) : rItems[j].t <= rTarget
    ELSE 0

C15_EarlyStop ==
    (/\ TargetDayHasFile
     /\ AllOfKinds(rItems, {"good"})
     /\ FirstExceeding # 0)
    => LET K == FirstExceeding
       IN  /\ Len(rTrace) <= K
           /\ \A k \in 1..Len(rTrace) :
                 /\ rTrace[k].from = ItemStart(rItems, k)
                 /\ rTrace[k].snap = << SnapAt(rItems[k].t) >>
           /\ rPos <= ItemStart(rItems, K + 1)
           /\ rPc \in {"after", "found", "fatal_notfound"} => Len(rTrace) = K
           /\ rPc # "panic"
           /\ RDone => RResult = (IF K = 1 THEN <<>> ELSE << SnapAt(rItems[K - 1].t) >>)

C15_Witness ==
    /\ rVariant = "reader.go"
    /\ rItems = << Item("good", 100), Item("good", 300), Item("good", 200) >>
    /\ rTarget = 250
    /\ rPc = "found"
    /\ rClosest = << SnapAt(100) >>
    /\ Len(rTrace) = 2
    /\ rPos = ItemStart(rItems, 3)

----------------------------------------------------------------------------
(* C16: rotation is lazy and per symbol.  A step of a writeSnapshot call    *)
(* for symbol s leaves every other symbol's recorded date, open handle,     *)
(* writer and files as they were, and so does the passing of time: a symbol *)
(* that is idle across UTC midnight keeps its file open while other symbols *)
(* append.                                                                  *)

\* The step is taken by a call for the symbol with lower-cased name s
ActsFor(s) ==
    \E c \in Callers :
        /\ pc'[c] # pc[c]
        /\ ToLower(IF pc[c] = "recv" THEN msg'[c].symbol ELSE msg[c].symbol) = s

SymbolStateUnchanged(s) ==
    /\ currentDates'[s] = currentDates[s]
    /\ openFiles'[s] = openFiles[s]
    /\ fileWriters'[s] = fileWriters[s]
    /\ \A h \in 1..Len(handles) :
          handles[h].path[1] = s => /\ handles'[h] = handles[h]
                                    /\ writers'[h] = writers[h]
    /\ \A h \in (Len(handles) + 1)..Len(handles') : handles'[h].path[1] # s
    /\ \A d \in Dates : fs'[FileName(s, d)] = fs[FileName(s, d)]

C16_RotationPerSymbol ==
    [][\A s \in LowerSymbols : ~ActsFor(s) => SymbolStateUnchanged(s)]_vars

\* ethbtc appended on day 0 and has been idle since; after midnight ethusdt
\* appended to its file of day 1; ethbtc's file of day 0 is still open.
C16_Witness ==
    /\ DateOf(now) = 1
    /\ currentDates["ethbtc"] = 0
    /\ openFiles["ethbtc"] # 0
    /\ ~handles[openFiles["ethbtc"]].closed
    /\ handles[openFiles["ethbtc"]].path = FileName("ethbtc", 0)
    /\ Len(appended[FileName("ethbtc", 0)]) = 1
    /\ Len(appended[FileName("ethusdt", 1)]) = 1
    /\ currentDates["ethusdt"] = 1

----------------------------------------------------------------------------
(* C17: the day of a frame and the day of its file.                         *)

\* The snapshots a reader decodes from the file at path p, in file order
DecodedFrom(p) ==
    LET rs == ReadAll(Content(fs, p), 0)
    IN  [k \in 1..(Len(rs) - 1) |-> rs[k].snap[1]]

(* C17 as claimed: every frame stored in the file of (symbol, date D) has   *)
(* an eventTime whose UTC date is D, so the file of a date holds every      *)
(* snapshot of the symbol stamped on that date.                             *)
C17_FrameDateIsFileDate ==
    \A p \in Paths :
        Exists(fs, p) =>
            LET d == DecodedFrom(p)
            IN  \A k \in 1..Len(d) : DateOf(d[k].eventTime) = p[2]

(* C17 as the code has it: every frame stored in the file of (symbol, D)    *)
(* has an eventTime whose UTC date is D or earlier, and D is the date       *)
(* getWriter read from the clock after the stamp was taken.                 *)
C17_FrameDateAtMostFileDate ==
    \A p \in Paths :
        /\ Exists(fs, p) =>
              LET d == DecodedFrom(p)
              IN  \A k \in 1..Len(d) : DateOf(d[k].eventTime) <= p[2]
        /\ \A k \in 1..Len(appended[p]) :
              /\ appended[p][k].utcDate = p[2]
              /\ DateOf(appended[p][k].snapshot.eventTime) <= appended[p][k].utcDate

\* A snapshot stamped on day 0 is stored in the file of day 1: midnight
\* passed between the stamp and getWriter.
C17_Witness ==
    /\ Exists(fs, FileName("ethusdt", 1))
    /\ Len(DecodedFrom(FileName("ethusdt", 1))) = 1
    /\ DateOf(DecodedFrom(FileName("ethusdt", 1))[1].eventTime) = 0
    /\ ~Exists(fs, FileName("ethusdt", 0))

----------------------------------------------------------------------------
(* The ingestion program as written: main runs runCollector in one          *)
(* goroutine, again after every disconnect, with the same FileManager.      *)

\* Mutant of SingleFlow: writeSnapshot is called from concurrent goroutines
SingleFlow_Concurrent == Callers

\* The callers of writeSnapshot in the program: the one loop of runCollector
SingleFlow == {1}

\* conn.ReadMessage fails: runCollector returns, main logs and sleeps
Disconnect(c) ==
    /\ pc[c] = "recv"
    /\ pc' = [pc EXCEPT ![c] = "reconnect"]
    /\ UNCHANGED <<msg, nMsgs, last, appended>>
    /\ UNCHANGED <<osVars, fmVars, readerVars>>

\* main calls runCollector(fm) again and the dial succeeds
Reconnect(c) ==
    /\ pc[c] = "reconnect"
    /\ pc' = [pc EXCEPT ![c] = "recv"]
    /\ UNCHANGED <<msg, nMsgs, last, appended>>
    /\ UNCHANGED <<osVars, fmVars, readerVars>>

NextSingle ==
    \/ Tick
    \/ \E c \in SingleFlow : Recv(c)
    \/ \E c \in SingleFlow : GetWriter(c)
    \/ \E c \in SingleFlow : WsLock(c)
    \/ \E c \in SingleFlow : WriteLen(c)
    \/ \E c \in SingleFlow : WriteBytes(c)
    \/ \E c \in SingleFlow : FlushUnlock(c)
    \/ \E c \in SingleFlow : Disconnect(c)
    \/ \E c \in SingleFlow : Reconnect(c)

SpecSingle == Init /\ [][NextSingle]_vars

(* C18: in the single-caller flow with a non-decreasing clock a message is  *)
(* appended before the next one is read, so in every log file the frames    *)
(* are in the order their snapshots were stamped and their eventTime values *)
(* are non-decreasing in file order, across reconnects and across appends   *)
(* of other symbols.  (lastUpdateId numbers the messages in stamping        *)
(* order.)                                                                  *)
InStampOrder(snaps) ==
    \A i, j \in 1..Len(snaps) :
        i < j => /\ snaps[i].lastUpdateId < snaps[j].lastUpdateId
                 /\ snaps[i].eventTime <= snaps[j].eventTime

C18_StampOrder ==
    /\ \A p \in Paths : Exists(fs, p) => InStampOrder(DecodedFrom(p))
    /\ \A c \in SingleFlow :
          pc[c] \notin {"recv", "reconnect"}
          => \A p \in Paths : \A k \in 1..Len(appended[p]) :
                 appended[p][k].snapshot.lastUpdateId < msg[c].snapshot.lastUpdateId

\* Two frames in one file, the first stamped before midnight and the second
\* after it; the connection has dropped since.
C18_Witness ==
    /\ Exists(fs, FileName("ethusdt", 1))
    /\ Len(DecodedFrom(FileName("ethusdt", 1))) = 2
    /\ DecodedFrom(FileName("ethusdt", 1))[1].eventTime = 0
    /\ DecodedFrom(FileName("ethusdt", 1))[2].eventTime = MsPerDay
    /\ pc[1] = "reconnect"

----------------------------------------------------------------------------
(* C19: the scan loop never uses a snapshot that was not decoded.  In an    *)
(* iteration in which readNextSnapshot returns an error (end-of-stream,     *)
(* short read, payload that does not parse) the nil snapshot is not         *)
(* dereferenced: the scan does not crash on an empty file, at the end of a  *)
(* file or on a corrupt frame.                                              *)
C19_NilSnapshotNotUsed ==
    (/\ rTrace # <<>>
     /\ Last(rTrace).err # "nil")
    => /\ Last(rTrace).snap = <<>>
       /\ rPc # "panic"

----------------------------------------------------------------------------
(* A query against a file whose reads can fail: file.Read returns an error  *)
(* other than io.EOF and no bytes (an I/O error of the device, a path that  *)
(* is a directory), every time it is called.                                *)
InitScanIO ==
    /\ WriterInit
    /\ rVariant \in ReaderVariants
    /\ rTarget \in Targets
    /\ rItems \in ItemSeqs
    /\ fs = [NoFiles EXCEPT ![FileName(ToLower(ReaderSymbol), 0)] = << FileOf(rItems) >>]
    /\ rPc = "open"
    /\ rPos = 0
    /\ rClosest = <<>>
    /\ rTrace = <<>>
    /\ rFault \in BOOLEAN
    /\ BookOff

SpecScanIO == InitScanIO /\ [][NextScan]_vars

(* C20: the scan terminates on every finite file and every read outcome:    *)
(* each iteration of the loop either ends the scan or advances the file     *)
(* position, also when readNextSnapshot returns an error other than         *)
(* end-of-stream and the loop continues.                                    *)
C20_IterationEndsOrAdvances ==
    [][rPc = "scan" => (rPc' # "scan" \/ rPos' > rPos)]_vars

====
